---------------------------- MODULE Spec2Model ----------------------------
(***************************************************************************)
(* Model of pretalx's Schedule model (src/pretalx/schedule/models/         *)
(* schedule.py): the version lifecycle (freeze / unfreeze, both wrapped in *)
(* transaction.atomic) and the `changes` computation that classifies the   *)
(* symmetric difference of two schedule versions into new, canceled and    *)
(* moved talks.                                                            *)
(*                                                                         *)
(* The specifications share the variables:                                 *)
(*   SpecDiff  the `changes` property run step by step (set-up, one loop   *)
(*             iteration per step, final count) over every pair of bounded *)
(*             snapshots;                                                  *)
(*   SpecTie   the same steps over snapshots spread over more rooms;       *)
(*   SpecFilter  the same steps over databases that also hold slots the    *)
(*             snapshot querysets leave out;                               *)
(*   SpecRace  freeze calls of concurrent callers that all loaded the      *)
(*             work-in-progress schedule before any of them started;       *)
(*   Spec      an event's schedules under freeze / unfreeze calls, each    *)
(*             executed statement group by statement group inside its      *)
(*             transaction, with the organiser's edits in between.         *)
(***************************************************************************)
EXTENDS Integers, Sequences, FiniteSets, TLC

VARIABLES
    db,     \* committed database: schedules, talks, submissions, mails, nextpk
    call,   \* the freeze / unfreeze call in progress or last finished
    pre,    \* the committed database when that call started
    edits,  \* the number of edits the organiser has made
    diff    \* the working state of one `changes` computation

vars == <<db, call, pre, edits, diff>>

---------------------------------------------------------------------------
(* Bounds of the model.                                                    *)

NumSubmissions == 2
NumRooms == 2
NumStarts == 2
\* talks per schedule version
MaxTalks == 3
\* schedule rows ever created for the event
MaxSchedules == 4
\* talks the organiser places in the work-in-progress version
MaxWipTalks == 2
\* edits the organiser makes in one history
MaxEdits == 2
\* rooms of the snapshots of SpecTie
NumTieRooms == 3
\* talk slots in the database of SpecFilter
MaxFilterTalks == 3
\* concurrent callers of SpecRace
NumProcs == 2

Submissions == 1..NumSubmissions
Rooms == 1..NumRooms
Starts == 1..NumStarts

\* SQL NULL / Python None for the nullable room, start and published columns.
NULL == 0
\* Python None for the nullable version column (a CharField).
NoVersion == "None"

---------------------------------------------------------------------------
(* Python list helpers.                                                    *)

Range(seq) == {seq[i] : i \in 1..Len(seq)}

\* list.index(x): position of the first occurrence.
list_index(seq, x) ==
    CHOOSE i \in 1..Len(seq) : seq[i] = x /\ \A j \in 1..(i - 1) : seq[j] # x

\* list.remove(x): the list without the first occurrence of x (x is in it).
list_remove(seq, x) ==
    LET i == list_index(seq, x)
    IN  SubSeq(seq, 1, i - 1) \o SubSeq(seq, i + 1, Len(seq))

---------------------------------------------------------------------------
(* The helper triples of `changes`: namedtuples (submission, room, start). *)

Triple(s, r, t) == [submission |-> s, room |-> r, start |-> t]

\* The value of old_slot / new_slot when no slot was found (Python None).
NoSlot == Triple(NULL, NULL, NULL)

\* attrgetter('submission', 'room', 'start') ordering.
TripleLess(a, b) ==
    \/ a.submission < b.submission
    \/ a.submission = b.submission /\ a.room < b.room
    \/ a.submission = b.submission /\ a.room = b.room /\ a.start < b.start

RECURSIVE sorted(_)
sorted(S) ==
    IF S = {} THEN <<>>
    ELSE LET m == CHOOSE x \in S : \A y \in S : x = y \/ TripleLess(x, y)
         IN  <<m>> \o sorted(S \ {m})

---------------------------------------------------------------------------
(* The database rows.                                                      *)
(*   schedule   [pk, version, published]                                   *)
(*   talk slot  [schedule, submission, room, start, is_visible]            *)
(*   mail       [schedule, to]  (a QueuedMail saved by notify_speakers)    *)
(* db.submissions maps each submission to its state.                       *)

SubmissionStates == {"confirmed", "accepted", "deleted"}

Schedule(pk, version, published) ==
    [pk |-> pk, version |-> version, published |-> published]

TalkSlot(schedule, s, r, t, v) ==
    [schedule |-> schedule, submission |-> s, room |-> r, start |-> t,
     is_visible |-> v]

\* The schedule row with primary key pk.
get_schedule(d, pk) == CHOOSE s \in d.schedules : s.pk = pk

\* self.talks: the related manager of a schedule.
talks_of(d, pk) == {t \in d.talks : t.schedule = pk}

\* previous_schedule without exclude(pk=self.pk).
previous_schedule_with_self(d, self) ==
    LET me == get_schedule(d, self)
        queryset == IF me.published # NULL
                    THEN {s \in d.schedules : s.published # NULL
                                              /\ s.published < me.published}
                    ELSE d.schedules
    IN  IF queryset = {} THEN NULL
        ELSE (CHOOSE s \in queryset :
                \A o \in queryset : o.published <= s.published).pk

\* previous_schedule without filter(published__lt=self.published).
previous_schedule_without_lt(d, self) ==
    LET others == {s \in d.schedules : s.pk # self}
    IN  IF others = {} THEN NULL
        ELSE (CHOOSE s \in others :
                \A o \in others : o.published <= s.published).pk

\* Schedule.previous_schedule: the other schedule of the event published
\* last, among those published before self when self is published.  An
\* unpublished schedule sorts after the published ones; the model never asks
\* for the previous schedule while two unpublished schedules exist.
previous_schedule(d, self) ==
    LET me == get_schedule(d, self)
        others == {s \in d.schedules : s.pk # self}
        queryset == IF me.published # NULL
                    THEN {s \in others : s.published # NULL
                                         /\ s.published < me.published}
                    ELSE others
    IN  IF queryset = {} THEN NULL
        ELSE (CHOOSE s \in queryset :
                \A o \in queryset : o.published <= s.published).pk

\* slots_qs without the filter on is_visible.
slots_qs_with_hidden(d, pk) ==
    {t \in talks_of(d, pk) :
        /\ t.room # NULL
        /\ t.start # NULL
        /\ d.submissions[t.submission] # "deleted"}

\* old_slots_qs / new_slots_qs: the visible, placed slots of a schedule whose
\* submission is not deleted.
slots_qs(d, pk) ==
    {t \in talks_of(d, pk) :
        /\ t.is_visible
        /\ t.room # NULL
        /\ t.start # NULL
        /\ d.submissions[t.submission] # "deleted"}

\* old_slots_helper / new_slots_helper: set(values_list(..., named=True)).
slots_helper(d, pk) ==
    {Triple(t.submission, t.room, t.start) : t \in slots_qs(d, pk)}

---------------------------------------------------------------------------
(* Schedule.changes.  The working state of one computation is a record:    *)
(*   old_slots_helper, new_slots_helper   the two snapshots                *)
(*   slots_helper_symetric_dif            the sorted symmetric difference  *)
(*   rooms_start                          room -> list of starts (pool)    *)
(*   room                                 list of rooms (one per entry)    *)
(*   handled                              slots_helper_already_handled     *)
(*   new_talks, canceled_talks, moved_talks, count, action   the result    *)
(*   raised                               the exception raised, "" if none *)

\* The dict appended to moved_talks (lines 422-429).  A room's name stands
\* for the room and a start for its instant (astimezone keeps the instant);
\* new_info, a function of the new room, is left out.
MovedTalk(old_slot, new_slot) ==
    [submission |-> new_slot.submission,
     old_start |-> old_slot.start, new_start |-> new_slot.start,
     old_room |-> old_slot.room, new_room |-> new_slot.room]

\* result = {...} at the top of changes.
changes_result(action) ==
    [action |-> action, count |-> 0,
     new_talks |-> <<>>, canceled_talks |-> <<>>, moved_talks |-> <<>>,
     raised |-> ""]

\* The union new_slots_helper | old_slots_helper instead of the symmetric
\* difference.
slots_helper_union(old, new) == sorted(new \cup old)

\* new_slots_helper ^ old_slots_helper, sorted.
slots_helper_symetric_dif(old, new) ==
    sorted((new \ old) \cup (old \ new))

\* slots_helper_symetric_dif__rooms_start: per room, the starts of the
\* entries of the symmetric difference, in its order.
slots_helper_symetric_dif__rooms_start(dif) ==
    LET F[i \in 0..Len(dif)] ==
            IF i = 0 THEN [r \in {} |-> <<>>]
            ELSE LET e == dif[i]
                     prev == F[i - 1]
                 IN  IF e.room \in DOMAIN prev
                     THEN [prev EXCEPT ![e.room] = Append(@, e.start)]
                     ELSE [r \in DOMAIN prev \cup {e.room} |->
                             IF r = e.room THEN <<e.start>> ELSE prev[r]]
    IN  F[Len(dif)]

\* slots_helper_symetric_dif__room: the room of every entry, in order.
slots_helper_symetric_dif__room(dif) == [i \in 1..Len(dif) |-> dif[i].room]

\* The state of the computation when the loop starts.
changes_setup(old, new) ==
    LET dif == slots_helper_symetric_dif(old, new)
    IN  [old_slots_helper |-> old, new_slots_helper |-> new,
         slots_helper_symetric_dif |-> dif,
         rooms_start |-> slots_helper_symetric_dif__rooms_start(dif),
         room |-> slots_helper_symetric_dif__room(dif),
         handled |-> <<>>,
         action |-> "update", count |-> 0,
         new_talks |-> <<>>, canceled_talks |-> <<>>, moved_talks |-> <<>>,
         raised |-> ""]

Found(slot, st) == [result |-> slot, st |-> st]
Raise(st, exc) == [result |-> NoSlot, st |-> [st EXCEPT !.raised = exc]]

\* Line 355: rooms_start[slot.room.id].remove(slot.start).
pool_without_own(st, slot) ==
    [st.rooms_start EXCEPT ![slot.room] = list_remove(@, slot.start)]

\* search_nearest_in_room, lines 347-365: temp_slot is a match; take the
\* slot's own start and the match's start out of the pool and mark the match
\* as handled.  list.remove raises ValueError when the start is not there.
consume_match(st, slot, other_slots_helper, room, temp_slot) ==
    IF temp_slot \in other_slots_helper
    THEN IF slot.start \notin Range(st.rooms_start[slot.room])
         THEN Raise(st, "ValueError")
         ELSE IF temp_slot.start \notin Range(pool_without_own(st, slot)[room])
         THEN Raise(st, "ValueError")
         ELSE Found(temp_slot,
                [st EXCEPT
                   !.rooms_start = [pool_without_own(st, slot) EXCEPT
                                      ![room] = list_remove(@, temp_slot.start)],
                   !.handled = Append(@, temp_slot)])
    ELSE Found(NoSlot, st)

\* search_nearest_in_room, lines 332-338: the first of the candidates.
first_candidate(st, slot, other_slots_helper, room, temp_slots_namedtuple) ==
    IF Len(temp_slots_namedtuple) > 0
    THEN consume_match(st, slot, other_slots_helper, room,
                       temp_slots_namedtuple[1])
    ELSE Found(NoSlot, st)

\* search_nearest_in_room without the submission filter.
search_nearest_in_room_any_submission(st, slot, other_slots_qs, other_slots_helper, room) ==
    first_candidate(st, slot, other_slots_helper, room,
        sorted({x \in other_slots_qs :
                  /\ x.room = room
                  /\ x.start \in Range(st.rooms_start[room])}))

\* search_nearest_in_room that looks the start up in the pool of the slot's
\* own room.
search_nearest_in_room_own_pool(st, slot, other_slots_qs, other_slots_helper, room) ==
    first_candidate(st, slot, other_slots_helper, room,
        sorted({x \in other_slots_qs :
                  /\ x.submission = slot.submission
                  /\ x.room = room
                  /\ x.start \in Range(st.rooms_start[slot.room])}))

\* search_nearest_in_room: the first slot of the other snapshot with the
\* slot's submission in `room` whose start is still in the room's pool.
search_nearest_in_room(st, slot, other_slots_qs, other_slots_helper, room) ==
    first_candidate(st, slot, other_slots_helper, room,
        sorted({x \in other_slots_qs :
                  /\ x.submission = slot.submission
                  /\ x.room = room
                  /\ x.start \in Range(st.rooms_start[room])}))

\* search_nearest_match, lines 302-309: on a match, remove the slot's room
\* and the match's room from the room list.
remove_rooms(slot, room, r) ==
    IF r.st.raised # "" \/ r.result = NoSlot THEN r
    ELSE IF room \notin Range(list_remove(r.st.room, slot.room))
    THEN Raise(r.st, "ValueError")
    ELSE Found(r.result,
           [r.st EXCEPT !.room = list_remove(list_remove(@, slot.room), room)])

\* search_nearest_match, lines 284-300: the rooms are tried in order until
\* one gives a result; tries[i] is what rooms[i] gives.
first_result(st, slot, rooms, tries, hits) ==
    IF hits = {} THEN Found(NoSlot, st)
    ELSE remove_rooms(slot, rooms[CHOOSE k \in hits : \A j \in hits : k <= j],
                      tries[CHOOSE k \in hits : \A j \in hits : k <= j])

try_rooms(st, slot, rooms, tries) ==
    first_result(st, slot, rooms, tries,
        {i \in 1..Len(rooms) :
            tries[i].result # NoSlot \/ tries[i].st.raised # ""})

\* search_nearest_match, lines 276-283: the room list with the slot's own
\* room moved to the front; rooms.index raises ValueError when the room is
\* not in the list.
own_room_first(st, slot) == <<slot.room>> \o list_remove(st.room, slot.room)

\* search_nearest_match that looks in the slot's own room only.
search_nearest_match_own_room(st, slot, slots_qs_, other_slots_qs, other_slots_helper) ==
    IF slot.room \notin Range(st.room)
    THEN Raise(st, "ValueError")
    ELSE remove_rooms(slot, slot.room,
           search_nearest_in_room(st, slot, other_slots_qs,
                                  other_slots_helper, slot.room))

\* search_nearest_match: try the slot's own room first, then the rooms of the
\* room list in order; on a match remove both rooms from the room list.
search_nearest_match(st, slot, slots_qs_, other_slots_qs, other_slots_helper) ==
    IF slot.room \notin Range(st.room)
    THEN Raise(st, "ValueError")
    ELSE try_rooms(st, slot, own_room_first(st, slot),
           [i \in 1..Len(st.room) |->
              search_nearest_in_room(st, slot, other_slots_qs,
                                     other_slots_helper,
                                     own_room_first(st, slot)[i])])

\* The lookup with the room and the start arguments exchanged.
qs_get_swapped(qs, slot_helper) ==
    IF Triple(slot_helper.submission, slot_helper.start, slot_helper.room) \in qs
    THEN slot_helper ELSE NoSlot

\* old_slots_qs.get(...) / new_slots_qs.get(...): the slot or None.
qs_get(qs, slot_helper) == IF slot_helper \in qs THEN slot_helper ELSE NoSlot

\* Lines 418-441: the entry is a move, a cancellation or a new talk.
classify_found(st, slot_helper, old_slot, new_slot) ==
    IF st.raised # "" THEN st
    ELSE IF old_slot # NoSlot /\ new_slot # NoSlot
    THEN [st EXCEPT !.handled = Append(@, slot_helper),
                    !.moved_talks = Append(@, MovedTalk(old_slot, new_slot))]
    ELSE IF old_slot # NoSlot /\ new_slot = NoSlot
    THEN [st EXCEPT !.handled = Append(@, slot_helper),
                    !.canceled_talks = Append(@, old_slot)]
    ELSE IF old_slot = NoSlot /\ new_slot # NoSlot
    THEN [st EXCEPT !.handled = Append(@, slot_helper),
                    !.new_talks = Append(@, new_slot)]
    ELSE [st EXCEPT !.raised = "Exception"]

\* Lines 398-413: search the counterpart of the slot that was found; m is
\* what the search gave.
classify_search(slot_helper, old_slot, new_slot, m) ==
    classify_found(m.st, slot_helper,
        IF new_slot # NoSlot THEN m.result ELSE old_slot,
        IF new_slot # NoSlot THEN new_slot
        ELSE IF old_slot # NoSlot THEN m.result ELSE NoSlot)

\* Lines 376-413: the exact lookups, then the search.
classify_lookup(st, slot_helper, old_slot, new_slot) ==
    classify_search(slot_helper, old_slot, new_slot,
        IF new_slot # NoSlot
        THEN search_nearest_match(st, new_slot, st.new_slots_helper,
                                  st.old_slots_helper, st.old_slots_helper)
        ELSE IF old_slot # NoSlot
        THEN search_nearest_match(st, old_slot, st.old_slots_helper,
                                  st.new_slots_helper, st.new_slots_helper)
        ELSE Found(NoSlot, st))

\* One iteration of the classification loop, for entry slot_helper.
classify(st, slot_helper) ==
    IF slot_helper \in Range(st.handled) THEN st
    ELSE classify_lookup(st, slot_helper,
                         qs_get(st.old_slots_helper, slot_helper),
                         qs_get(st.new_slots_helper, slot_helper))

\* result['count'] = len(new_talks) + len(canceled_talks) + len(moved_talks)
changes_count(st) ==
    [st EXCEPT !.count = Len(st.new_talks) + Len(st.canceled_talks)
                         + Len(st.moved_talks)]

\* The loop from entry i on; it stops at the first exception.
RECURSIVE changes_loop(_, _)
changes_loop(st, i) ==
    IF st.raised # "" \/ i > Len(st.slots_helper_symetric_dif) THEN st
    ELSE changes_loop(classify(st, st.slots_helper_symetric_dif[i]), i + 1)

\* The result dict of a computation state.
result_of(st) ==
    [action |-> st.action, count |-> st.count, new_talks |-> st.new_talks,
     canceled_talks |-> st.canceled_talks, moved_talks |-> st.moved_talks,
     raised |-> st.raised]

\* Schedule.changes as a whole, for schedule self of database d.
changes(d, self) ==
    LET previous == previous_schedule(d, self)
    IN  IF previous = NULL THEN changes_result("create")
        ELSE LET st == changes_loop(
                          changes_setup(slots_helper(d, previous),
                                        slots_helper(d, self)), 1)
             IN  IF st.raised # "" THEN result_of(st)
                 ELSE result_of(changes_count(st))

---------------------------------------------------------------------------
(* SpecDiff: one `changes` computation, step by step.                       *)
(* The database holds the current version (pk 2, work in progress) and,    *)
(* unless there is no previous schedule, a published version (pk 1).       *)
(* diff = [pc, self, i, st]: pc is "start", "loop", "done" or "raised";    *)
(* i the index of the next entry of the symmetric difference; st the       *)
(* working state.                                                          *)

AllTriples == {Triple(s, r, t) : s \in Submissions, r \in Rooms, t \in Starts}

\* The snapshots the computation is run on: unique triples, at most
\* MaxTalks of them.
SlotSets == {S \in SUBSET AllTriples : Cardinality(S) <= MaxTalks}

EmptyDb ==
    [schedules |-> {}, talks |-> {},
     submissions |-> [s \in Submissions |-> "confirmed"],
     mails |-> {}, nextpk |-> 1]

NoCall ==
    [op |-> "none", self |-> NULL, name |-> "", notify |-> FALSE,
     pc |-> "idle", outcome |-> "none", wip_schedule |-> NULL,
     old_wip |-> NULL, tx |-> EmptyDb]

IdleDiff == [pc |-> "idle", self |-> NULL, i |-> 0, st |-> changes_setup({}, {})]

DiffDb(has_previous, old, new) ==
    [schedules |-> {Schedule(2, NoVersion, NULL)}
                   \cup (IF has_previous THEN {Schedule(1, "v1", 1)} ELSE {}),
     talks |-> {TalkSlot(1, x.submission, x.room, x.start, TRUE) : x \in old}
               \cup {TalkSlot(2, x.submission, x.room, x.start, TRUE) : x \in new},
     submissions |-> [s \in Submissions |-> "confirmed"],
     mails |-> {},
     nextpk |-> 3]

InitDiff ==
    /\ \E has_previous \in BOOLEAN, old \in SlotSets, new \in SlotSets :
          /\ has_previous \/ old = {}
          /\ db = DiffDb(has_previous, old, new)
    /\ call = NoCall
    /\ pre = db
    /\ edits = 0
    /\ diff = [IdleDiff EXCEPT !.pc = "start", !.self = 2]

\* Lines 133-267: the early return without a previous schedule, else the
\* snapshots, the sorted symmetric difference and the two pools.
ChangesStart ==
    /\ diff.pc = "start"
    /\ LET previous == previous_schedule(db, diff.self)
       IN  IF previous = NULL
           THEN diff' = [diff EXCEPT !.pc = "done",
                                     !.st = [@ EXCEPT !.action = "create"]]
           ELSE diff' = [diff EXCEPT
                           !.pc = "loop", !.i = 1,
                           !.st = changes_setup(slots_helper(db, previous),
                                                slots_helper(db, diff.self))]
    /\ UNCHANGED <<db, call, pre, edits>>

\* Lines 371-441: one iteration of the classification loop.
ChangesStep ==
    /\ diff.pc = "loop"
    /\ diff.i <= Len(diff.st.slots_helper_symetric_dif)
    /\ LET st == classify(diff.st, diff.st.slots_helper_symetric_dif[diff.i])
       IN  diff' = [diff EXCEPT !.st = st,
                                !.i = IF st.raised = "" THEN @ + 1 ELSE @,
                                !.pc = IF st.raised = "" THEN "loop" ELSE "raised"]
    /\ UNCHANGED <<db, call, pre, edits>>

\* Lines 462-467: the count, and the return.
ChangesFinish ==
    /\ diff.pc = "loop"
    /\ diff.i > Len(diff.st.slots_helper_symetric_dif)
    /\ diff' = [diff EXCEPT !.pc = "done", !.st = changes_count(diff.st)]
    /\ UNCHANGED <<db, call, pre, edits>>

NextDiff == ChangesStart \/ ChangesStep \/ ChangesFinish

SpecDiff == InitDiff /\ [][NextDiff]_vars

\* SpecTie: the same computation over snapshots that spread over
\* NumTieRooms rooms at one start, so that a search has several rooms to
\* choose from.
TieTriples ==
    {Triple(s, r, 1) : s \in Submissions, r \in 1..NumTieRooms}

TieSlotSets == {S \in SUBSET TieTriples : Cardinality(S) <= MaxTalks}

InitTie ==
    /\ \E old \in TieSlotSets, new \in TieSlotSets :
          db = DiffDb(TRUE, old, new)
    /\ call = NoCall
    /\ pre = db
    /\ edits = 0
    /\ diff = [IdleDiff EXCEPT !.pc = "start", !.self = 2]

SpecTie == InitTie /\ [][NextDiff]_vars

\* SpecFilter: the same computation on a database whose two versions also
\* hold slots that are hidden, have no room or no start, or belong to a
\* deleted submission.  The slots are in one room.
FilterRows ==
    {TalkSlot(pk, s, r, t, v) :
        pk \in {1, 2}, s \in Submissions, r \in {NULL, 1},
        t \in Starts \cup {NULL}, v \in BOOLEAN}

\* The sets of at most n rows.
RECURSIVE RowSets(_)
RowSets(n) ==
    IF n = 0 THEN {{}}
    ELSE RowSets(n - 1)
         \cup {S \cup {x} : S \in RowSets(n - 1), x \in FilterRows}

InitFilter ==
    /\ \E talks \in RowSets(MaxFilterTalks),
          states \in [Submissions -> {"confirmed", "deleted"}] :
          db = [DiffDb(TRUE, {}, {}) EXCEPT !.talks = talks,
                                           !.submissions = states]
    /\ call = NoCall
    /\ pre = db
    /\ edits = 0
    /\ diff = [IdleDiff EXCEPT !.pc = "start", !.self = 2]

SpecFilter == InitFilter /\ [][NextDiff]_vars

---------------------------------------------------------------------------
(* Spec: the version lifecycle.                                            *)
(* call = [op, self, name, notify, pc, outcome, wip_schedule, old_wip, tx] *)
(*   op        "freeze", "unfreeze" or "none"                              *)
(*   pc        "idle", or the next statement group of the running call     *)
(*   outcome   "raised" (rejected before any change), "ok" (committed),    *)
(*             "failed" (rolled back), "none"                              *)
(*   tx        the database as the call's transaction sees it              *)
(* Readers outside the transaction see db.  pre is db as it was when the   *)
(* call started.                                                           *)

Names == {"wip", "latest", "", "v1", "v2"}

\* Event.wip_schedule: the schedule of the event without a version.
wip_schedule(d) == (CHOOSE s \in d.schedules : s.version = NoVersion).pk

\* now(): later than every publication time in the database.
now(d) ==
    1 + (CHOOSE m \in {s.published : s \in d.schedules} :
            \A s \in d.schedules : s.published <= m)

\* Python truthiness of self.version.
truthy(version) == version # NoVersion /\ version # ""

\* freeze without the check of an empty name (lines 46-47).
freeze_error_without_name_check(version, name) ==
    IF name \in {"wip", "latest"} THEN "reserved name"
    ELSE IF truthy(version) THEN "already versioned"
    ELSE ""

\* freeze, lines 40-47: the exception raised before anything is changed.
freeze_error(version, name) ==
    IF name \in {"wip", "latest"} THEN "reserved name"
    ELSE IF truthy(version) THEN "already versioned"
    ELSE IF name = "" THEN "no version name"
    ELSE ""

\* unfreeze, lines 88-89.
unfreeze_error(version) ==
    IF ~truthy(version) THEN "not released yet" ELSE ""

\* freeze that stamps the version and leaves published unset.
freeze_stamp_without_published(d, self, name) ==
    [d EXCEPT !.schedules =
        {IF s.pk = self THEN Schedule(self, name, NULL) ELSE s : s \in @}]

\* freeze, lines 49-51: stamp the version and the publication time.
freeze_stamp(d, self, name) ==
    [d EXCEPT !.schedules =
        {IF s.pk = self THEN Schedule(self, name, now(d)) ELSE s : s \in @}]

\* unique_together = (('event', 'version'),): the save fails with an
\* IntegrityError when another schedule carries the version.
unique_together_violated(d, self, name) ==
    \E s \in d.schedules : s.pk # self /\ s.version = name

\* Schedule.objects.create(event=self.event), lines 54 and 97.
create_schedule(d) ==
    [d EXCEPT !.schedules = @ \cup {Schedule(d.nextpk, NoVersion, NULL)},
              !.nextpk = @ + 1]

\* freeze, lines 57-61: show the hidden slots that have a start and a
\* confirmed submission.
freeze_show(d, self) ==
    [d EXCEPT !.talks =
        {IF /\ t.schedule = self
            /\ t.start # NULL
            /\ d.submissions[t.submission] = "confirmed"
            /\ ~t.is_visible
         THEN [t EXCEPT !.is_visible = TRUE] ELSE t : t \in @}]

\* freeze that hides only the visible slots without a start.
freeze_hide_unscheduled(d, self) ==
    [d EXCEPT !.talks =
        {IF t.schedule = self /\ t.is_visible /\ t.start = NULL
         THEN [t EXCEPT !.is_visible = FALSE] ELSE t : t \in @}]

\* freeze, lines 62-64: hide the visible slots that lack one of the two.
freeze_hide(d, self) ==
    [d EXCEPT !.talks =
        {IF /\ t.schedule = self
            /\ t.is_visible
            /\ ~(t.start # NULL /\ d.submissions[t.submission] = "confirmed")
         THEN [t EXCEPT !.is_visible = FALSE] ELSE t : t \in @}]

\* TalkSlot.copy_to_schedule: a new slot of new_schedule with the fields of
\* talk.
copy_to_schedule(talk, new_schedule) == [talk EXCEPT !.schedule = new_schedule]

\* freeze, lines 66-69: copy every slot of self to the new schedule.
freeze_copy(d, self, new_wip) ==
    [d EXCEPT !.talks =
        @ \cup {copy_to_schedule(t, new_wip) : t \in talks_of(d, self)}]

\* User.objects.filter(submissions__slots__schedule=self): one speaker per
\* submission, named by it.
speakers_of(submission) == {submission}

\* Schedule.speakers_concerned, lines 484-504 (c is self.changes).
speakers_concerned(d, self, c) ==
    IF c.action = "create"
    THEN UNION {speakers_of(t.submission) : t \in talks_of(d, self)}
    ELSE IF c.count = Len(c.canceled_talks) THEN {}
    ELSE UNION ({speakers_of(c.new_talks[i].submission) :
                    i \in 1..Len(c.new_talks)}
                \cup {speakers_of(c.moved_talks[i].submission) :
                    i \in 1..Len(c.moved_talks)})

\* Schedule.notify_speakers, lines 506-528: one mail per speaker concerned.
notify_speakers(d, self, c) ==
    [d EXCEPT !.mails =
        @ \cup {[schedule |-> self, to |-> sp] :
                  sp \in speakers_concerned(d, self, c)}]

\* unfreeze that reopens the slots of self only.
unfreeze_talks_of_self(d, self, wip) == talks_of(d, self)

\* unfreeze that reopens every slot of the work-in-progress schedule next
\* to the slots of self.
unfreeze_talks_all(d, self, wip) == talks_of(d, wip) \cup talks_of(d, self)

\* unfreeze, lines 92-95: the slots of the work-in-progress schedule whose
\* submission has no slot in self, and the slots of self.
unfreeze_talks(d, self, wip) ==
    {t \in talks_of(d, wip) :
        t.submission \notin {u.submission : u \in talks_of(d, self)}}
    \cup talks_of(d, self)

\* unfreeze that moves the slots to the new schedule instead of copying them.
unfreeze_move(d, self, wip, new_wip) ==
    [d EXCEPT !.talks =
        {IF t \in unfreeze_talks(d, self, wip)
         THEN copy_to_schedule(t, new_wip) ELSE t : t \in @}]

\* unfreeze, lines 98-101: copy them to the new schedule.
unfreeze_copy(d, self, wip, new_wip) ==
    [d EXCEPT !.talks =
        @ \cup {copy_to_schedule(t, new_wip) : t \in unfreeze_talks(d, self, wip)}]

\* unfreeze that deletes the slots of the old work-in-progress schedule and
\* keeps the schedule.
unfreeze_delete_talks(d, wip) ==
    [d EXCEPT !.talks = {t \in @ : t.schedule # wip}]

\* unfreeze, lines 103-104: delete the old work-in-progress schedule and its
\* slots.
unfreeze_delete(d, wip) ==
    [d EXCEPT !.talks = {t \in @ : t.schedule # wip},
              !.schedules = {s \in @ : s.pk # wip}]

Init ==
    /\ db = [EmptyDb EXCEPT !.schedules = {Schedule(1, NoVersion, NULL)},
                            !.nextpk = 2]
    /\ call = NoCall
    /\ pre = db
    /\ edits = 0
    /\ diff = IdleDiff

\* No call is running and the last one has been dealt with.
Idle == call.pc = "idle" /\ call.op = "none"

\* The organiser's edits of the work-in-progress schedule, between calls.
AddTalk ==
    /\ Idle
    /\ edits < MaxEdits
    /\ Cardinality(talks_of(db, wip_schedule(db))) < MaxWipTalks
    /\ \E s \in Submissions, r \in Rooms \cup {NULL}, t \in Starts \cup {NULL},
          v \in BOOLEAN :
          /\ \A u \in talks_of(db, wip_schedule(db)) :
                Triple(u.submission, u.room, u.start) # Triple(s, r, t)
          /\ db' = [db EXCEPT !.talks =
                        @ \cup {TalkSlot(wip_schedule(db), s, r, t, v)}]
    /\ pre' = db'
    /\ edits' = edits + 1
    /\ UNCHANGED <<call, diff>>

RemoveTalk ==
    /\ Idle
    /\ edits < MaxEdits
    /\ \E t \in talks_of(db, wip_schedule(db)) :
          db' = [db EXCEPT !.talks = @ \ {t}]
    /\ pre' = db'
    /\ edits' = edits + 1
    /\ UNCHANGED <<call, diff>>

SetState ==
    /\ Idle
    /\ edits < MaxEdits
    /\ \E s \in Submissions, st \in SubmissionStates :
          /\ db.submissions[s] # st
          /\ db' = [db EXCEPT !.submissions[s] = st]
    /\ pre' = db'
    /\ edits' = edits + 1
    /\ UNCHANGED <<call, diff>>

\* The call ends: rejected, committed or rolled back.
Ends(outcome) ==
    [call EXCEPT !.pc = "idle", !.outcome = outcome, !.tx = EmptyDb,
                 !.old_wip = NULL]

\* freeze(name, notify_speakers) on the schedule pk, lines 36-47.  A call
\* that is rejected never reads notify_speakers: it is explored with the
\* default, True.
FreezeCall ==
    /\ Idle
    /\ \E self \in {s.pk : s \in db.schedules}, name \in Names,
          notify \in BOOLEAN :
          LET c == [NoCall EXCEPT !.op = "freeze", !.self = self,
                                  !.name = name, !.notify = notify]
          IN  IF freeze_error(get_schedule(db, self).version, name) # ""
              THEN /\ notify
                   /\ call' = [c EXCEPT !.outcome = "raised"]
              ELSE /\ db.nextpk <= MaxSchedules
                   /\ call' = [c EXCEPT !.pc = "stamp", !.tx = db]
    /\ pre' = db
    /\ UNCHANGED <<db, edits, diff>>

\* freeze outside a transaction: the save of line 51 is committed at once.
FreezeStampCommitted ==
    /\ call.pc = "stamp"
    /\ IF unique_together_violated(call.tx, call.self, call.name)
       THEN call' = Ends("failed") /\ db' = db
       ELSE /\ call' = [call EXCEPT !.pc = "create",
                          !.tx = freeze_stamp(call.tx, call.self, call.name)]
            /\ db' = freeze_stamp(call.tx, call.self, call.name)
    /\ UNCHANGED <<pre, edits, diff>>

\* Lines 49-52.
FreezeStamp ==
    /\ call.pc = "stamp"
    /\ IF unique_together_violated(call.tx, call.self, call.name)
       THEN call' = Ends("failed")
       ELSE call' = [call EXCEPT !.pc = "create",
                        !.tx = freeze_stamp(call.tx, call.self, call.name)]
    /\ UNCHANGED <<db, pre, edits, diff>>

\* Line 54.
FreezeCreate ==
    /\ call.pc = "create"
    /\ call' = [call EXCEPT !.pc = "visibility",
                            !.wip_schedule = call.tx.nextpk,
                            !.tx = create_schedule(call.tx)]
    /\ UNCHANGED <<db, pre, edits, diff>>

\* Lines 56-64.
FreezeVisibility ==
    /\ call.pc = "visibility"
    /\ call' = [call EXCEPT !.pc = "copy",
                  !.tx = freeze_hide(freeze_show(call.tx, call.self), call.self)]
    /\ UNCHANGED <<db, pre, edits, diff>>

\* Lines 66-69.
FreezeCopy ==
    /\ call.pc = "copy"
    /\ call' = [call EXCEPT !.pc = "notify",
                  !.tx = freeze_copy(call.tx, call.self, call.wip_schedule)]
    /\ UNCHANGED <<db, pre, edits, diff>>

\* Lines 71-72; an exception in self.changes ends the call.
FreezeNotify ==
    /\ call.pc = "notify"
    /\ IF ~call.notify
       THEN call' = [call EXCEPT !.pc = "return"]
       ELSE IF changes(call.tx, call.self).raised # ""
       THEN call' = Ends("failed")
       ELSE call' = [call EXCEPT !.pc = "return",
                        !.tx = notify_speakers(call.tx, call.self,
                                               changes(call.tx, call.self))]
    /\ UNCHANGED <<db, pre, edits, diff>>

\* Lines 74-82, and the commit of transaction.atomic.
FreezeReturn ==
    /\ call.pc = "return"
    /\ db' = call.tx
    /\ call' = Ends("ok")
    /\ UNCHANGED <<pre, edits, diff>>

\* unfreeze() on the schedule pk, lines 84-89.
UnfreezeCall ==
    /\ Idle
    /\ \E self \in {s.pk : s \in db.schedules} :
          LET c == [NoCall EXCEPT !.op = "unfreeze", !.self = self]
          IN  IF unfreeze_error(get_schedule(db, self).version) # ""
              THEN call' = [c EXCEPT !.outcome = "raised"]
              ELSE /\ db.nextpk <= MaxSchedules
                   /\ call' = [c EXCEPT !.pc = "u_copy", !.tx = db]
    /\ pre' = db
    /\ UNCHANGED <<db, edits, diff>>

\* Lines 91-101.
UnfreezeCopy ==
    /\ call.pc = "u_copy"
    /\ call' = [call EXCEPT
                  !.pc = "u_delete",
                  !.old_wip = wip_schedule(call.tx),
                  !.wip_schedule = call.tx.nextpk,
                  !.tx = unfreeze_copy(create_schedule(call.tx), call.self,
                                       wip_schedule(call.tx), call.tx.nextpk)]
    /\ UNCHANGED <<db, pre, edits, diff>>

\* Lines 103-104.
UnfreezeDelete ==
    /\ call.pc = "u_delete"
    /\ call' = [call EXCEPT !.pc = "u_return",
                            !.tx = unfreeze_delete(call.tx, call.old_wip)]
    /\ UNCHANGED <<db, pre, edits, diff>>

\* Lines 106-109, and the commit of transaction.atomic.
UnfreezeReturn ==
    /\ call.pc = "u_return"
    /\ db' = call.tx
    /\ call' = Ends("ok")
    /\ UNCHANGED <<pre, edits, diff>>

\* A statement of the running call fails (a storage error): the exception
\* leaves the transaction.atomic block, which rolls back.
Fail ==
    /\ call.pc # "idle"
    /\ call' = Ends("failed")
    /\ UNCHANGED <<db, pre, edits, diff>>

\* The caller goes on after the call has returned or raised.
Continue ==
    /\ call.pc = "idle"
    /\ call.op # "none"
    /\ call' = NoCall
    /\ pre' = db
    /\ UNCHANGED <<db, edits, diff>>

Next ==
    \/ AddTalk \/ RemoveTalk \/ SetState \/ Continue
    \/ FreezeCall \/ FreezeStamp \/ FreezeCreate \/ FreezeVisibility
    \/ FreezeCopy \/ FreezeNotify \/ FreezeReturn
    \/ UnfreezeCall \/ UnfreezeCopy \/ UnfreezeDelete \/ UnfreezeReturn
    \/ Fail

Spec == Init /\ [][Next]_vars

---------------------------------------------------------------------------
(* SpecRace: concurrent freeze calls on one schedule.                      *)
(* Every caller holds its own Schedule object of the work-in-progress      *)
(* schedule (pk 1), loaded while its version was None.  call[p] is the     *)
(* call record of caller p: call[p].began is the database as p's           *)
(* transaction found it when it began, call[p].tx the database with p's    *)
(* writes.  The UPDATE of line 51 locks the schedule row until p's         *)
(* transaction ends, so another caller's UPDATE of that row waits.         *)

Procs == 1..NumProcs

RaceNames == {"wip", "v1", "v2"}

\* Caller q has written the schedule row and not yet committed or rolled
\* back.
RowLocked(q) ==
    call[q].pc \in {"create", "visibility", "copy", "notify", "return"}

\* A caller that holds the Schedule object of pk 1 and has not called yet.
NoRaceCall ==
    [op |-> "none", self |-> 1, name |-> "", notify |-> FALSE, pc |-> "idle",
     outcome |-> "none", wip_schedule |-> NULL, began |-> EmptyDb,
     tx |-> EmptyDb]

InitRace ==
    /\ \E talks \in {S \in RowSets(1) : \A t \in S : t.schedule = 1} :
          db = [EmptyDb EXCEPT !.schedules = {Schedule(1, NoVersion, NULL)},
                               !.talks = talks, !.nextpk = 2]
    /\ call = [p \in Procs |-> NoRaceCall]
    /\ pre = db
    /\ edits = 0
    /\ diff = IdleDiff

\* The end of caller p's call.
RaceEnds(p, outcome) ==
    [call EXCEPT ![p].pc = "idle", ![p].outcome = outcome, ![p].tx = EmptyDb]

\* freeze(name, notify_speakers) by caller p, lines 36-47: the checks read
\* the version of p's own object, which is None; the transaction begins.
RaceCall(p) ==
    /\ call[p].op = "none"
    /\ \E name \in RaceNames, notify \in BOOLEAN :
          IF freeze_error(NoVersion, name) # ""
          THEN /\ notify
               /\ call' = [call EXCEPT ![p].op = "freeze", ![p].name = name,
                                       ![p].notify = notify,
                                       ![p].outcome = "raised",
                                       ![p].began = db]
          ELSE call' = [call EXCEPT ![p].op = "freeze", ![p].name = name,
                                    ![p].notify = notify, ![p].pc = "stamp",
                                    ![p].began = db]
    /\ UNCHANGED <<db, pre, edits, diff>>

\* Lines 49-52: UPDATE ... WHERE id = pk, once no other transaction holds
\* the row.  The statement writes the row as committed by then (READ
\* COMMITTED, Django's default); when the database changed since p's
\* transaction began, a stricter isolation level fails the statement.
RaceStamp(p) ==
    /\ call[p].pc = "stamp"
    /\ \A q \in Procs \ {p} : ~RowLocked(q)
    /\ \/ /\ ~unique_together_violated(db, call[p].self, call[p].name)
          /\ call' = [call EXCEPT
                         ![p].pc = "create",
                         ![p].tx = freeze_stamp(db, call[p].self, call[p].name)]
       \/ /\ unique_together_violated(db, call[p].self, call[p].name)
          /\ call' = RaceEnds(p, "failed")
       \/ /\ call[p].began # db
          /\ call' = RaceEnds(p, "failed")
    /\ UNCHANGED <<db, pre, edits, diff>>

\* Line 54.
RaceCreate(p) ==
    /\ call[p].pc = "create"
    /\ call[p].tx.nextpk <= MaxSchedules
    /\ call' = [call EXCEPT ![p].pc = "visibility",
                            ![p].wip_schedule = call[p].tx.nextpk,
                            ![p].tx = create_schedule(call[p].tx)]
    /\ UNCHANGED <<db, pre, edits, diff>>

\* Lines 56-64.
RaceVisibility(p) ==
    /\ call[p].pc = "visibility"
    /\ call' = [call EXCEPT
                  ![p].pc = "copy",
                  ![p].tx = freeze_hide(freeze_show(call[p].tx, call[p].self),
                                        call[p].self)]
    /\ UNCHANGED <<db, pre, edits, diff>>

\* Lines 66-69.
RaceCopy(p) ==
    /\ call[p].pc = "copy"
    /\ call' = [call EXCEPT
                  ![p].pc = "notify",
                  ![p].tx = freeze_copy(call[p].tx, call[p].self,
                                        call[p].wip_schedule)]
    /\ UNCHANGED <<db, pre, edits, diff>>

\* Lines 71-72; an exception in self.changes ends the call.
RaceNotify(p) ==
    /\ call[p].pc = "notify"
    /\ IF ~call[p].notify
       THEN call' = [call EXCEPT ![p].pc = "return"]
       ELSE IF changes(call[p].tx, call[p].self).raised # ""
       THEN call' = RaceEnds(p, "failed")
       ELSE call' = [call EXCEPT
                        ![p].pc = "return",
                        ![p].tx = notify_speakers(call[p].tx, call[p].self,
                                     changes(call[p].tx, call[p].self))]
    /\ UNCHANGED <<db, pre, edits, diff>>

\* Lines 74-82, and the commit of transaction.atomic.
RaceReturn(p) ==
    /\ call[p].pc = "return"
    /\ db' = call[p].tx
    /\ call' = RaceEnds(p, "ok")
    /\ UNCHANGED <<pre, edits, diff>>

\* A statement of caller p's call fails: transaction.atomic rolls back.
RaceFail(p) ==
    /\ call[p].pc # "idle"
    /\ call' = RaceEnds(p, "failed")
    /\ UNCHANGED <<db, pre, edits, diff>>

NextRace ==
    \E p \in Procs :
        \/ RaceCall(p) \/ RaceStamp(p) \/ RaceCreate(p) \/ RaceVisibility(p)
        \/ RaceCopy(p) \/ RaceNotify(p) \/ RaceReturn(p) \/ RaceFail(p)

SpecRace == InitRace /\ [][NextRace]_vars

---------------------------------------------------------------------------
(* Properties of the `changes` computation (checked under SpecDiff).       *)

\* The two snapshots the computation compares, read from the database (the
\* published version of SpecDiff has pk 1).
PreviousSnapshot == slots_helper(db, 1)
CurrentSnapshot == slots_helper(db, diff.self)
HasPrevious == \E s \in db.schedules : s.pk # diff.self
OnlyPrevious == PreviousSnapshot \ CurrentSnapshot
OnlyCurrent == CurrentSnapshot \ PreviousSnapshot

\* The computation has returned its result / has ended, with or without one.
Returned == diff.pc = "done"
Ended == diff.pc \in {"done", "raised"}

OldSide(m) == Triple(m.submission, m.old_room, m.old_start)
NewSide(m) == Triple(m.submission, m.new_room, m.new_start)

\* The number of output entries that account for triple x.
Accounted(st, x) ==
    Cardinality({i \in 1..Len(st.new_talks) : st.new_talks[i] = x})
    + Cardinality({i \in 1..Len(st.canceled_talks) : st.canceled_talks[i] = x})
    + Cardinality({i \in 1..Len(st.moved_talks) : OldSide(st.moved_talks[i]) = x})
    + Cardinality({i \in 1..Len(st.moved_talks) : NewSide(st.moved_talks[i]) = x})

\* C1 (conservation): a returned result has count = |new_talks| +
\* |canceled_talks| + |moved_talks|, and every triple of the symmetric
\* difference of the two snapshots is accounted for by exactly one entry.
C1_Conservation ==
    (Returned /\ HasPrevious) =>
        /\ diff.st.count = Len(diff.st.new_talks) + Len(diff.st.canceled_talks)
                           + Len(diff.st.moved_talks)
        /\ \A x \in OnlyPrevious \cup OnlyCurrent : Accounted(diff.st, x) = 1

\* The snapshots differ in one slot of one submission: a at (R1, T1) in the
\* previous version, b at (R2, T2) in the current one.
SimpleMove(a, b) ==
    /\ HasPrevious
    /\ OnlyPrevious = {a}
    /\ OnlyCurrent = {b}
    /\ a.submission = b.submission

\* C2 (simple move): when the snapshots are identical except that one
\* submission's slot is at (R1, T1) in previous and at (R2, T2) in current,
\* the computation returns exactly one moved record, from (R1, T1) to
\* (R2, T2), and no new and no canceled entry.
C2_SimpleMove ==
    \A a \in AllTriples, b \in AllTriples :
        (Ended /\ SimpleMove(a, b)) =>
            /\ Returned
            /\ diff.st.moved_talks = <<MovedTalk(a, b)>>
            /\ diff.st.new_talks = <<>>
            /\ diff.st.canceled_talks = <<>>
            /\ diff.st.count = 1

\* A simple move across rooms of a submission that also keeps another slot.
C2_Witness ==
    \E a \in AllTriples, b \in AllTriples :
        /\ Returned /\ SimpleMove(a, b)
        /\ a.room # b.room
        /\ \E c \in PreviousSnapshot \cap CurrentSnapshot :
              c.submission = a.submission
        /\ Len(diff.st.moved_talks) = 1

\* The snapshots differ by the single triple x, whose submission has no slot
\* in the other snapshot.
PureChange(x, mine, other) ==
    /\ HasPrevious
    /\ mine \ other = {x}
    /\ other \ mine = {}
    /\ \A y \in other : y.submission # x.submission

\* C3 (pure addition / pure removal): when the snapshots differ by exactly
\* one triple whose submission has no slot in the other snapshot, the
\* computation returns exactly one entry and no moved record: one new entry
\* when the triple is only in current, one canceled entry when it is only in
\* previous.
C3_PureAdditionRemoval ==
    \A x \in AllTriples :
        /\ (Ended /\ PureChange(x, CurrentSnapshot, PreviousSnapshot)) =>
              /\ Returned
              /\ diff.st.new_talks = <<x>>
              /\ diff.st.canceled_talks = <<>>
              /\ diff.st.moved_talks = <<>>
              /\ diff.st.count = 1
        /\ (Ended /\ PureChange(x, PreviousSnapshot, CurrentSnapshot)) =>
              /\ Returned
              /\ diff.st.new_talks = <<>>
              /\ diff.st.canceled_talks = <<x>>
              /\ diff.st.moved_talks = <<>>
              /\ diff.st.count = 1

\* A pure removal next to another submission's unchanged slot in the same
\* room at the same start.
C3_Witness ==
    \E x \in AllTriples :
        /\ Returned /\ PureChange(x, PreviousSnapshot, CurrentSnapshot)
        /\ \E y \in CurrentSnapshot : y.room = x.room /\ y.start = x.start
        /\ Len(diff.st.canceled_talks) = 1

\* C4 (no previous schedule): when the event has no other schedule, changes
\* returns action 'create', count 0 and three empty lists, whatever slots the
\* current version holds.
C4_NoPrevious ==
    (Ended /\ ~HasPrevious) =>
        result_of(diff.st) = changes_result("create")

\* The computation returned for a version with slots and no previous one.
C4_Witness ==
    /\ Returned /\ ~HasPrevious
    /\ Cardinality(CurrentSnapshot) = MaxTalks

\* C5 (identity): comparing a snapshot with an identical snapshot returns
\* count 0 and three empty lists.
C5_Identity ==
    (Ended /\ HasPrevious /\ PreviousSnapshot = CurrentSnapshot) =>
        result_of(diff.st) = changes_result("update")

\* Two identical non-empty snapshots were compared.
C5_Witness ==
    /\ Returned /\ HasPrevious
    /\ PreviousSnapshot = CurrentSnapshot
    /\ Cardinality(CurrentSnapshot) = MaxTalks

---------------------------------------------------------------------------
(* Properties of the version lifecycle (checked under Spec).               *)

\* A call is recorded: running, or ended and not yet left behind.
InCall == call.op # "none"
Running == call.pc # "idle"
Finished(op, outcome) ==
    call.op = op /\ call.pc = "idle" /\ call.outcome = outcome

\* The version the call is made on, as it was when the call started.
SelfBefore == get_schedule(pre, call.self)

Frozen(s) == s.version # NoVersion
WipVersions(d) == {s \in d.schedules : ~Frozen(s)}

\* The recorded call violates its precondition.
PreconditionViolated ==
    \/ /\ call.op = "freeze"
       /\ \/ call.name \in {"wip", "latest", ""}
          \/ Frozen(SelfBefore)
    \/ /\ call.op = "unfreeze"
       /\ ~Frozen(SelfBefore)

\* C6 (rejection before any change): a freeze with the label 'wip', 'latest'
\* or '', a freeze of a version that already has a label and an unfreeze of
\* a version without a label raise, and the database (versions, labels,
\* publication times, slots, visibility flags) is as before the call.
C6_RejectedUnchanged ==
    (InCall /\ PreconditionViolated) =>
        /\ Finished(call.op, "raised")
        /\ db = pre

\* A freeze with a free label was rejected on a published version that has
\* slots.
C6_Witness ==
    /\ Finished("freeze", "raised")
    /\ call.name = "v2"
    /\ SelfBefore.version = "v1"
    /\ talks_of(db, call.self) # {}

\* The slots of the old work-in-progress version whose submission has no
\* slot in the version that was unfrozen.
AddedSince ==
    {t \in talks_of(pre, wip_schedule(pre)) :
        \A u \in talks_of(pre, call.self) : u.submission # t.submission}

\* C7 (unfreeze keeps later additions): after unfreeze() of a published
\* version, every slot of the old work-in-progress version whose submission
\* has no slot in the published version has a slot with the same submission,
\* room and start in the version unfreeze reopened.
C7_UnfreezeKeepsAdditions ==
    Finished("unfreeze", "ok") =>
        /\ call.wip_schedule = wip_schedule(db)
        /\ \A t \in AddedSince :
              \E u \in talks_of(db, call.wip_schedule) :
                  /\ u.submission = t.submission
                  /\ u.room = t.room
                  /\ u.start = t.start

\* A version with a slot was unfrozen while the work-in-progress version
\* held a slot of another submission.
C7_Witness ==
    /\ Finished("unfreeze", "ok")
    /\ talks_of(pre, call.self) # {}
    /\ AddedSince # {}

\* C8 (one work-in-progress version): whatever freeze and unfreeze calls
\* have run, accepted or rejected, the event has exactly one version without
\* a label.
C8_OneWip == Cardinality(WipVersions(db)) = 1

\* An unfreeze has completed in an event with two published versions.
C8_Witness ==
    /\ Finished("unfreeze", "ok")
    /\ Cardinality(db.schedules) = 3

\* C9 (all or nothing): while a call runs, and after a call that failed, the
\* committed database is the one the call started from: nobody sees a label
\* stamped, a schedule created or slots copied unless the call completes.
C9_AllOrNothing ==
    (InCall /\ call.outcome # "ok") => db = pre

\* A freeze failed after it had stamped the label, created the new schedule
\* and copied slots to it.
C9_Witness ==
    /\ Finished("freeze", "failed")
    /\ call.wip_schedule # NULL
    /\ talks_of(pre, call.self) # {}

\* C10 (published versions are immutable): a freeze or unfreeze call, on
\* whatever version, leaves every version that was published when it started
\* with its label, its publication time and its slots.
C10_FrozenImmutable ==
    InCall =>
        \A s \in pre.schedules :
            Frozen(s) =>
                /\ s \in db.schedules
                /\ talks_of(db, s.pk) = talks_of(pre, s.pk)

\* The older of two published versions, which has slots, was unfrozen.
C10_Witness ==
    /\ Finished("unfreeze", "ok")
    /\ talks_of(pre, call.self) # {}
    /\ \E s \in pre.schedules : Frozen(s) /\ s.published > SelfBefore.published

---------------------------------------------------------------------------
(* Further properties of the `changes` computation (checked under          *)
(* SpecDiff).                                                              *)

\* C11 (common triples generate nothing): a triple present in both the
\* previous and the current snapshot appears in no entry of a returned
\* result: not as a new talk, not as a canceled talk, not as the old or the
\* new side of a moved record.
C11_CommonUntouched ==
    (Returned /\ HasPrevious) =>
        \A x \in PreviousSnapshot \cap CurrentSnapshot :
            Accounted(diff.st, x) = 0

\* The computation is in its loop or has returned: every iteration so far
\* has ended without an exception.
Iterated == HasPrevious /\ diff.pc \in {"loop", "done"}

\* The triples that are a side of a moved record of the working state.
Matched(st) ==
    {OldSide(st.moved_talks[i]) : i \in 1..Len(st.moved_talks)}
    \cup {NewSide(st.moved_talks[i]) : i \in 1..Len(st.moved_talks)}

\* The number of occurrences of x in the list seq.
Count(seq, x) == Cardinality({i \in 1..Len(seq) : seq[i] = x})

\* The entries of the symmetric difference not yet used in a match.
Unmatched(st) == Range(st.slots_helper_symetric_dif) \ Matched(st)

\* C12 (pool consumption): after every loop iteration the pool of each room
\* holds exactly the starts of the symmetric-difference triples of that room
\* not yet used in a match, the room list holds one entry per such triple,
\* and no triple is a side of two moved records.
C12_PoolConsumption ==
    Iterated =>
        /\ \A r \in Rooms, t \in Starts :
              (IF r \in DOMAIN diff.st.rooms_start
               THEN Count(diff.st.rooms_start[r], t) ELSE 0)
              = Cardinality({x \in Unmatched(diff.st) :
                                x.room = r /\ x.start = t})
        /\ \A r \in Rooms :
              Count(diff.st.room, r)
              = Cardinality({x \in Unmatched(diff.st) : x.room = r})
        /\ \A x \in AllTriples : Accounted(diff.st, x) <= 1

\* C13 (totality): for snapshots with unique triples the computation ends
\* by returning a result, never by raising.
C13_Total == (Ended /\ HasPrevious) => Returned

\* C14 (the 'slot not found' branch): no entry of the symmetric difference
\* is found in neither snapshot, so the exception of the final else branch
\* is never raised.
C14_NeitherUnreachable == diff.st.raised # "Exception"

\* A computation that looked up and classified entries of all three kinds
\* has returned.
C14_Witness ==
    /\ Returned /\ HasPrevious
    /\ Len(diff.st.new_talks) > 0
    /\ Len(diff.st.canceled_talks) > 0
    /\ Len(diff.st.moved_talks) > 0

---------------------------------------------------------------------------
(* The order of the search (checked under SpecTie).                        *)

\* The entry the next loop iteration classifies, and whether it searches.
Entry == diff.st.slots_helper_symetric_dif[diff.i]
Searching ==
    /\ diff.pc = "loop"
    /\ diff.i <= Len(diff.st.slots_helper_symetric_dif)
    /\ Entry \notin Range(diff.st.handled)

\* The snapshot the counterpart of entry e is searched in.
OtherSnapshot(st, e) ==
    IF e \in st.new_slots_helper THEN st.old_slots_helper
    ELSE st.new_slots_helper

\* The candidate counterparts of e: the slots of the other snapshot with
\* e's submission whose start is in the pool of their room.
Candidates(st, e) ==
    {x \in OtherSnapshot(st, e) :
        /\ x.submission = e.submission
        /\ x.room \in DOMAIN st.rooms_start
        /\ x.start \in Range(st.rooms_start[x.room])}

\* The candidate of room r with the smallest start.
Earliest(st, e, r) ==
    CHOOSE x \in Candidates(st, e) :
        /\ x.room = r
        /\ \A y \in Candidates(st, e) : y.room = r => x.start <= y.start

\* The counterpart the tie-break order gives e: the one in e's own room if
\* there is one, else the one in the first room that holds a candidate, in
\* the order the rooms appear in the sorted symmetric difference.
TieBreak(st, e) ==
    LET dif == st.slots_helper_symetric_dif
        hits == {k \in 1..Len(dif) :
                    \E x \in Candidates(st, e) : x.room = dif[k].room}
    IN  IF Candidates(st, e) = {} THEN NoSlot
        ELSE IF \E x \in Candidates(st, e) : x.room = e.room
        THEN Earliest(st, e, e.room)
        ELSE Earliest(st, e,
                      dif[CHOOSE k \in hits : \A j \in hits : k <= j].room)

\* The counterpart the last moved record of working state st gives e.
Counterpart(st, e) ==
    LET m == st.moved_talks[Len(st.moved_talks)]
    IN  IF e \in st.new_slots_helper THEN OldSide(m) ELSE NewSide(m)

\* C15 (tie-break order): every iteration that searches a counterpart ends
\* without an exception and takes the counterpart the tie-break order gives
\* (own room first, then the rooms in the order of the sorted symmetric
\* difference, the smallest start within a room), or none when there is no
\* candidate.
C15_TieBreak ==
    [][Searching =>
          /\ diff'.pc # "raised"
          /\ IF TieBreak(diff.st, Entry) = NoSlot
             THEN diff'.st.moved_talks = diff.st.moved_talks
             ELSE /\ Len(diff'.st.moved_talks) = Len(diff.st.moved_talks) + 1
                  /\ Counterpart(diff'.st, Entry) = TieBreak(diff.st, Entry)]_vars

---------------------------------------------------------------------------
(* The snapshot filter (checked under SpecFilter).                         *)

\* The slot takes part in the diff: it is visible, has a room and a start,
\* and its submission is not deleted.
Qualifies(d, t) ==
    /\ t.is_visible
    /\ t.room # NULL
    /\ t.start # NULL
    /\ d.submissions[t.submission] # "deleted"

\* The database without the slots that fail the filter.
Cleaned(d) == [d EXCEPT !.talks = {t \in @ : Qualifies(d, t)}]

\* The triples of the slots of database d that pass the filter.
QualifyingTriples(d) ==
    {Triple(t.submission, t.room, t.start) :
        t \in {u \in d.talks : Qualifies(d, u)}}

\* C16 (snapshot filter): the computation ends as it does on the database
\* without the slots that are hidden, lack a room or a start, or belong to
\* a deleted submission, and every entry of its lists is the triple of a
\* slot that passes the filter.
C16_FilteredOnly ==
    Ended =>
        /\ result_of(diff.st) = changes(Cleaned(db), diff.self)
        /\ \A x \in AllTriples :
              Accounted(diff.st, x) > 0 => x \in QualifyingTriples(db)

\* A computation with a change returned on a database that holds, in its
\* two versions, a hidden slot and a slot of a deleted submission.
C16_Witness ==
    /\ Returned
    /\ diff.st.count > 0
    /\ \E t \in db.talks : ~t.is_visible /\ t.room # NULL /\ t.start # NULL
                             /\ db.submissions[t.submission] # "deleted"
    /\ \E t \in db.talks : t.is_visible /\ t.room # NULL /\ t.start # NULL
                             /\ db.submissions[t.submission] = "deleted"

---------------------------------------------------------------------------
(* Further properties of the version lifecycle (checked under Spec).       *)

\* The slot has a start and its submission is confirmed.
ShouldBeVisible(d, t) ==
    t.start # NULL /\ d.submissions[t.submission] = "confirmed"

\* The slots of version pk of database d as slots of version target.
CopiesOf(d, pk, target) ==
    {[t EXCEPT !.schedule = target] : t \in talks_of(d, pk)}

\* C17 (visibility after freeze): after a successful freeze every slot of
\* the frozen version is visible if and only if it has a start and its
\* submission is confirmed, whatever it was before, and the slots of the new
\* work-in-progress version are the copies of these slots, with the same
\* visibility.
C17_FreezeVisibility ==
    Finished("freeze", "ok") =>
        /\ \A t \in talks_of(db, call.self) :
              t.is_visible <=> ShouldBeVisible(db, t)
        /\ talks_of(db, call.wip_schedule)
              = CopiesOf(db, call.self, call.wip_schedule)
        /\ {[t EXCEPT !.is_visible = TRUE] : t \in talks_of(db, call.self)}
              = {[t EXCEPT !.is_visible = TRUE] : t \in talks_of(pre, call.self)}

\* A freeze has shown a hidden slot and hidden a visible one.
C17_Witness ==
    /\ Finished("freeze", "ok")
    /\ \E t \in talks_of(pre, call.self) :
          ~t.is_visible /\ [t EXCEPT !.is_visible = TRUE] \in db.talks
    /\ \E t \in talks_of(pre, call.self) :
          t.is_visible /\ [t EXCEPT !.is_visible = FALSE] \in db.talks

\* The old work-in-progress version of the call.
OldWip == wip_schedule(pre)

\* C18 (the result of unfreeze): after unfreeze(V) the new work-in-progress
\* version holds a copy of every slot of V and of every slot of the old
\* work-in-progress version whose submission has no slot in V, and nothing
\* else; the old work-in-progress version and its slots are gone.
C18_UnfreezeResult ==
    Finished("unfreeze", "ok") =>
        /\ talks_of(db, call.wip_schedule)
              = CopiesOf(pre, call.self, call.wip_schedule)
                \cup {[t EXCEPT !.schedule = call.wip_schedule] :
                         t \in AddedSince}
        /\ \A s \in db.schedules : s.pk # OldWip
        /\ talks_of(db, OldWip) = {}
        /\ call.wip_schedule # OldWip
        /\ \E s \in db.schedules : s.pk = call.wip_schedule /\ ~Frozen(s)

\* An unfreeze dropped a work-in-progress slot of a submission that has a
\* slot in the version unfrozen, and kept that version's slot.
C18_Witness ==
    /\ Finished("unfreeze", "ok")
    /\ \E t \in talks_of(pre, OldWip) :
          /\ \E u \in talks_of(pre, call.self) : u.submission = t.submission
          /\ [t EXCEPT !.schedule = call.wip_schedule] \notin db.talks
    /\ talks_of(db, call.wip_schedule) # {}

\* C19 (no pending difference after freeze): right after a successful
\* freeze the previous schedule of the new work-in-progress version is the
\* version just frozen, and its changes have action 'update', count 0 and
\* empty lists.
C19_FreshWipNoChanges ==
    Finished("freeze", "ok") =>
        /\ previous_schedule(db, call.wip_schedule) = call.self
        /\ changes(db, call.wip_schedule) = changes_result("update")

\* The second version of an event was frozen with a slot that takes part in
\* the diff.
C19_Witness ==
    /\ Finished("freeze", "ok")
    /\ Cardinality(db.schedules) = 3
    /\ slots_helper(db, call.self) # {}

---------------------------------------------------------------------------
(* The submission-keyed comparison (checked under SpecDiff).               *)

\* Every submission has at most one slot in snapshot S.
OnePerSubmission(S) ==
    \A x \in S, y \in S : x.submission = y.submission => x = y

\* The list seq holds exactly the elements of set S, each once.
ListsExactly(seq, S) == Range(seq) = S /\ Len(seq) = Cardinality(S)

\* The submissions placed in snapshot S.
Placed(S) == {x.submission : x \in S}

\* C20 (submission-keyed comparison): when every submission has at most one
\* slot in each snapshot, the computation returns one moved record for every
\* submission placed differently in the two, one new entry for every
\* submission placed only in current, one canceled entry for every
\* submission placed only in previous, and nothing else.
C20_SubmissionKeyed ==
    (Ended /\ HasPrevious /\ OnePerSubmission(PreviousSnapshot)
           /\ OnePerSubmission(CurrentSnapshot)) =>
        /\ Returned
        /\ ListsExactly(diff.st.moved_talks,
              {MovedTalk(a, b) : <<a, b>> \in
                  {p \in PreviousSnapshot \X CurrentSnapshot :
                      p[1].submission = p[2].submission /\ p[1] # p[2]}})
        /\ ListsExactly(diff.st.new_talks,
              {x \in CurrentSnapshot :
                  x.submission \notin Placed(PreviousSnapshot)})
        /\ ListsExactly(diff.st.canceled_talks,
              {x \in PreviousSnapshot :
                  x.submission \notin Placed(CurrentSnapshot)})

\* Two submissions with one slot each have exchanged their places.
C20_Witness ==
    /\ Returned /\ HasPrevious
    /\ OnePerSubmission(PreviousSnapshot) /\ OnePerSubmission(CurrentSnapshot)
    /\ Len(diff.st.moved_talks) = 2
    /\ \E m \in Range(diff.st.moved_talks), n \in Range(diff.st.moved_talks) :
          /\ m.old_room = n.new_room /\ m.old_start = n.new_start
          /\ n.old_room = m.new_room /\ n.old_start = m.new_start
          /\ m.submission # n.submission

---------------------------------------------------------------------------
(* Concurrent freeze calls (checked under SpecRace).                       *)

\* The callers whose freeze took effect.
Winners == {p \in Procs : call[p].op = "freeze" /\ call[p].outcome = "ok"}

\* Every call made so far began before any call committed.
StartedConcurrently == \A p \in Procs : call[p].op = "freeze" => call[p].began = pre

\* C21 (concurrent freeze): of freeze calls started concurrently on objects
\* of the same work-in-progress schedule, loaded while its version was None,
\* at most one takes effect; the event keeps exactly one schedule without a
\* version, and the schedule frozen keeps the version of the one call that
\* took effect.
C21_OneFreezeWins ==
    StartedConcurrently =>
        /\ Cardinality(Winners) <= 1
        /\ Cardinality(WipVersions(db)) = 1
        /\ \A p \in Winners : get_schedule(db, 1).version = call[p].name

---------------------------------------------------------------------------
(* The previous schedule (checked under Spec).                             *)

\* The frozen versions of database d that were published before schedule s;
\* all frozen versions when s is the work-in-progress version.
EarlierPublications(d, s) ==
    {o \in d.schedules :
        /\ Frozen(o)
        /\ o.pk # s.pk
        /\ Frozen(s) => o.published < s.published}

\* Schedule o is the one of set S that was published last.
NearestOf(S, o) ==
    o \in S /\ \A x \in S \ {o} : x.published < o.published

\* C22 (previous schedule): the previous schedule of a frozen version is
\* the frozen version of the event published last before it, the previous
\* schedule of the work-in-progress version is the frozen version published
\* last; there is none exactly when no such version exists, and exactly then
\* changes has action 'create'.
C22_NearestEarlier ==
    \A s \in db.schedules :
        /\ previous_schedule(db, s.pk) = NULL
              <=> EarlierPublications(db, s) = {}
        /\ previous_schedule(db, s.pk) # NULL
              => NearestOf(EarlierPublications(db, s),
                           get_schedule(db, previous_schedule(db, s.pk)))
        /\ changes(db, s.pk).action = "create"
              <=> EarlierPublications(db, s) = {}

\* The older of two frozen versions was unfrozen: the previous schedule of
\* the new work-in-progress version is the other, later one, and that one
\* has the unfrozen version as its previous schedule.
C22_Witness ==
    /\ Finished("unfreeze", "ok")
    /\ previous_schedule(db, call.wip_schedule) \notin {NULL, call.self}
    /\ previous_schedule(db, previous_schedule(db, call.wip_schedule))
          = call.self
    /\ previous_schedule(db, call.self) = NULL

=============================================================================
